---- MODULE Spec2Model ----
(***************************************************************************)
(* jest-haste-map: the index build pipeline of class HasteMap              *)
(* (packages/jest-haste-map/src/index.js).                                 *)
(*                                                                         *)
(* One behaviour is a sequence of runs.  A run constructs a HasteMap       *)
(* instance with some options, calls build() on it one or more times and   *)
(* lets the promise chain read the cache, crawl, extract metadata, tear    *)
(* the worker pool down, persist and publish.  Between runs the file       *)
(* system changes.  The cache file on disk is shared by all runs.          *)
(***************************************************************************)
EXTENDS Integers, Sequences, FiniteSets, TLC

(***************************************************************************)
(* Bounds of the model.                                                    *)
(***************************************************************************)
MaxRuns   == 2    \* HasteMap instances constructed in one behaviour
MaxCalls  == 2    \* build() calls on one instance
MaxFsOps  == 1    \* file-system changes between two runs

(***************************************************************************)
(* The files the project may hold, in the stable order in which the        *)
(* `for (const filePath in hasteMap.files)` loop meets them.               *)
(***************************************************************************)
PathA   == "/src/a.js"
PathB   == "/src/b.js"
PathIos == "/src/__mocks__/a.ios.js"
PathNm  == "/node_modules/n/__mocks__/c.js"

FileOrder == <<PathA, PathB, PathIos, PathNm>>
Paths     == {FileOrder[i] : i \in 1..Len(FileOrder)}

GENERIC_PLATFORM == "g"
MODULE_TYPE      == "module"

\* What a file holds: it cannot be read, it declares no module, or it
\* declares @providesModule X.
Unreadable == "unreadable"
NoModule   == ""
Contents   == {Unreadable, NoModule, "X"}

(***************************************************************************)
(* Tables: objects created with Object.create(null), as functions.         *)
(***************************************************************************)
EmptyTable == [k \in {} |-> 0]

Put(t, k, v) == [x \in (DOMAIN t) \cup {k} |-> IF x = k THEN v ELSE t[x]]

Del(t, k) == [x \in (DOMAIN t) \ {k} |-> t[x]]

\* The keys of `files` in iteration order.
KeysInOrder(t) == SelectSeq(FileOrder, LAMBDA p : p \in DOMAIN t)

(***************************************************************************)
(* Path predicates.  The configuration is: ignorePattern matches nothing,  *)
(* mocksPattern is "__mocks__", platforms is ["ios"], and no               *)
(* providesModuleNodeModules whitelist is given.                           *)
(***************************************************************************)
\* this._options.ignorePattern.test(filePath)
IgnorePatternTest(filePath) == FALSE

\* filePath.includes(NODE_MODULES); this._whitelist is null
IsNodeModulesDir(filePath) == filePath \in {PathNm}

\* mocksPattern.test(filePath)
MocksPatternTest(filePath) == filePath \in {PathIos, PathNm}

\* path.basename(filePath, path.extname(filePath))
Basename(filePath) ==
  CASE filePath = PathA   -> "a"
    [] filePath = PathB   -> "b"
    [] filePath = PathIos -> "a.ios"
    [] filePath = PathNm  -> "c"

\* getPlatformExtension(file): the token between the last two dots when it
\* is a supported platform, else null (written "").
GetPlatformExtension(file) == IF file = PathIos THEN "ios" ELSE ""

\* The dependencies the extractor reports for a file.
DependenciesOf(filePath) == <<"./dep">>

Ignore(opts, filePath) ==
  \/ IgnorePatternTest(filePath)
  \/ (~opts.retainAllFiles /\ IsNodeModulesDir(filePath))

(***************************************************************************)
(* Data.                                                                   *)
(***************************************************************************)
CreateEmptyMap ==
  [clocks |-> EmptyTable, files |-> EmptyTable,
   map |-> EmptyTable, mocks |-> EmptyTable]

\* FileMetaData [H.ID, H.MTIME, H.VISITED, H.DEPENDENCIES]
FileMetaData(id, mtime, visited, dependencies) ==
  [id |-> id, mtime |-> mtime, visited |-> visited,
   dependencies |-> dependencies]

\* ModuleMetaData [H.PATH, H.TYPE]
ModuleMetaData(filePath) == [path |-> filePath, type |-> MODULE_TYPE]

DefaultOptions ==
  [throwOnModuleCollision |-> FALSE, retainAllFiles |-> FALSE,
   resetCache |-> FALSE, maxWorkers |-> 1, useWatchman |-> FALSE]

\* The options a run is constructed with: every combination of collision
\* policy, retainAllFiles and worker count, resetCache switched on over the
\* defaults, and useWatchman switched on under either collision policy.
\* useWatchman stands for canUseWatchman && options.useWatchman.
OptionSets ==
  [throwOnModuleCollision : BOOLEAN,
   retainAllFiles         : BOOLEAN,
   resetCache             : {FALSE},
   maxWorkers             : {1, 2},
   useWatchman            : {FALSE}]
  \cup {[DefaultOptions EXCEPT !.resetCache = TRUE],
        [DefaultOptions EXCEPT !.useWatchman = TRUE],
        [DefaultOptions EXCEPT !.useWatchman = TRUE,
                               !.throwOnModuleCollision = TRUE]}

\* Errors: what a rejected build carries.
NoError == [kind |-> "none", paths |-> {}, messages |-> {}]

ErrorOf(kind, paths, messages) ==
  [kind |-> kind, paths |-> paths, messages |-> messages]

NoValue == [files |-> EmptyTable, map |-> EmptyTable, mocks |-> EmptyTable]

NullPromise ==
  [state |-> "null", id |-> 0, value |-> NoValue, error |-> NoError]

VARIABLES
  fs,            \* the file system: path -> [exists, mtime, content]
  disk,          \* the cache file at this._cachePath
  runs,          \* instances constructed so far
  fsOps,         \* file-system changes so far
  options,       \* this._options
  buildPromise,  \* this._buildPromise
  workerPromise, \* this._workerPromise is set
  workerFarm,    \* this._workerFarm is set
  farm,          \* the worker-farm pool: "none", "live", "ended"
  pc,            \* where the promise chain of the pipeline stands
  hasteMap,      \* the InternalHasteMap the pipeline works on
  map,           \* _buildHasteMap's fresh map
  mocks,         \* _buildHasteMap's fresh mocks
  promises,      \* extraction jobs not yet completed, in dispatch order
  console,       \* what this._console.warn received, in order
  crawlLog,      \* the crawler invocations of this build, in order
  calls,         \* build() calls on this instance
  pipelines,     \* pipelines started on this instance
  returned,      \* ids of the promises build() returned on this instance
  submitted,     \* paths handed to the extractor in this build
  collided,      \* the setModule calls of this build that met another path
  prev,          \* the index published by the run before, if still current
  fsTouched,     \* the file system changed since the last run started
  cacheReads,    \* this.read() calls of this build
  cacheWrites,   \* fs.writeFileSync calls of this build
  cacheAtStart   \* the cache file as the build found it

vars ==
  <<fs, disk, runs, fsOps, options, buildPromise, workerPromise, workerFarm,
    farm, pc, hasteMap, map, mocks, promises, console, crawlLog, calls,
    pipelines, returned, submitted, collided, prev, fsTouched,
    cacheReads, cacheWrites, cacheAtStart>>

instanceVars == <<options, buildPromise, workerPromise, workerFarm>>
pipelineVars == <<pc, hasteMap, map, mocks, promises, farm>>
envVars      == <<fs, disk, runs, fsOps>>
logVars      == <<console, crawlLog>>
cacheVars    == <<cacheReads, cacheWrites, cacheAtStart>>
histVars     == <<calls, pipelines, returned, submitted, collided, prev,
                  fsTouched, cacheVars>>

FileOnDisk(mtime, content) ==
  [exists |-> TRUE, mtime |-> mtime, content |-> content]

Absent == [exists |-> FALSE, mtime |-> 0, content |-> NoModule]

\* The projects a behaviour starts from.
InitialProjects ==
  {[p \in Paths |->
      CASE p = PathA   -> FileOnDisk(1, "X")
        [] p = PathB   -> b
        [] p = PathIos -> FileOnDisk(1, i)
        [] p = PathNm  -> FileOnDisk(1, "X")] :
   b \in {Absent, FileOnDisk(1, "X"), FileOnDisk(1, NoModule)},
   i \in {"X", Unreadable}}

NoCache == [kind |-> "missing", data |-> CreateEmptyMap]

NoPrev == [ok |-> FALSE, index |-> NoValue, options |-> DefaultOptions]

Init ==
  /\ fs \in InitialProjects
  /\ disk = NoCache
  /\ runs = 0
  /\ fsOps = 0
  /\ options = DefaultOptions
  /\ buildPromise = NullPromise
  /\ workerPromise = FALSE
  /\ workerFarm = FALSE
  /\ farm = "none"
  /\ pc = "none"
  /\ hasteMap = CreateEmptyMap
  /\ map = EmptyTable
  /\ mocks = EmptyTable
  /\ promises = <<>>
  /\ console = <<>>
  /\ crawlLog = <<>>
  /\ calls = 0
  /\ pipelines = 0
  /\ returned = {}
  /\ submitted = {}
  /\ collided = <<>>
  /\ prev = NoPrev
  /\ fsTouched = FALSE
  /\ cacheReads = 0
  /\ cacheWrites = 0
  /\ cacheAtStart = NoCache

(***************************************************************************)
(* The environment: the file system changes between runs.                  *)
(***************************************************************************)
\* No pipeline is in flight: nothing was built yet, or the build promise is
\* settled and every extraction job has completed.
Idle ==
  \/ runs = 0
  \/ (buildPromise.state \in {"resolved", "rejected"} /\ promises = <<>>)

\* The file system changes between two runs; fsOps counts the changes
\* since the last run.
MayChange == runs > 0 /\ runs < MaxRuns /\ Idle /\ fsOps < MaxFsOps

FsCreate(p, content) ==
  /\ MayChange
  /\ ~fs[p].exists
  /\ fs' = [fs EXCEPT ![p] = FileOnDisk(fs[p].mtime + 1, content)]
  /\ fsOps' = fsOps + 1
  /\ fsTouched' = TRUE
  /\ UNCHANGED <<disk, runs, instanceVars, pipelineVars, logVars,
                 calls, pipelines, returned, submitted, collided, prev,
                 cacheVars>>

FsTouch(p, content) ==
  /\ MayChange
  /\ fs[p].exists
  /\ fs' = [fs EXCEPT ![p] = FileOnDisk(fs[p].mtime + 1, content)]
  /\ fsOps' = fsOps + 1
  /\ fsTouched' = TRUE
  /\ UNCHANGED <<disk, runs, instanceVars, pipelineVars, logVars,
                 calls, pipelines, returned, submitted, collided, prev,
                 cacheVars>>

\* mv p q: the content and the mtime move to q.
FsRename(p, q) ==
  /\ MayChange
  /\ fs[p].exists /\ ~fs[q].exists
  /\ fs' = [fs EXCEPT ![q] = fs[p],
                      ![p] = [exists |-> FALSE, mtime |-> fs[p].mtime,
                              content |-> NoModule]]
  /\ fsOps' = fsOps + 1
  /\ fsTouched' = TRUE
  /\ UNCHANGED <<disk, runs, instanceVars, pipelineVars, logVars,
                 calls, pipelines, returned, submitted, collided, prev,
                 cacheVars>>

FsRemove(p) ==
  /\ MayChange
  /\ fs[p].exists
  /\ fs' = [fs EXCEPT ![p] = [exists |-> FALSE, mtime |-> fs[p].mtime,
                              content |-> NoModule]]
  /\ fsOps' = fsOps + 1
  /\ fsTouched' = TRUE
  /\ UNCHANGED <<disk, runs, instanceVars, pipelineVars, logVars,
                 calls, pipelines, returned, submitted, collided, prev,
                 cacheVars>>

(***************************************************************************)
(* constructor(options)                                                    *)
(***************************************************************************)
Constructor(opts) ==
  /\ Idle /\ runs < MaxRuns
  /\ runs' = runs + 1
  /\ options' = opts
  /\ buildPromise' = NullPromise
  /\ workerPromise' = FALSE
  /\ workerFarm' = FALSE
  /\ farm' = "none"
  /\ pc' = "none"
  /\ hasteMap' = CreateEmptyMap
  /\ map' = EmptyTable
  /\ mocks' = EmptyTable
  /\ promises' = <<>>
  /\ console' = <<>>
  /\ crawlLog' = <<>>
  /\ calls' = 0
  /\ pipelines' = 0
  /\ returned' = {}
  /\ submitted' = {}
  /\ collided' = <<>>
  /\ prev' = IF buildPromise.state = "resolved" /\ ~fsTouched
               THEN [ok |-> TRUE, index |-> buildPromise.value,
                     options |-> options]
               ELSE NoPrev
  /\ fsTouched' = FALSE
  /\ fsOps' = 0
  /\ cacheReads' = 0
  /\ cacheWrites' = 0
  /\ cacheAtStart' = disk
  /\ UNCHANGED <<fs, disk>>

(***************************************************************************)
(* build()                                                                 *)
(***************************************************************************)
\* A build() that starts a pipeline on every call.
StartsPipelineAlways(promise) == TRUE

\* if (!this._buildPromise)
StartsPipeline(promise) == promise.state = "null"

Build ==
  /\ runs > 0 /\ calls < MaxCalls
  /\ calls' = calls + 1
  /\ IF StartsPipeline(buildPromise)
       THEN /\ buildPromise' = [state |-> "pending", id |-> pipelines + 1,
                                value |-> NoValue, error |-> NoError]
            /\ pipelines' = pipelines + 1
            /\ pc' = "read"
            /\ hasteMap' = CreateEmptyMap
            /\ map' = EmptyTable
            /\ mocks' = EmptyTable
            /\ promises' = <<>>
            /\ console' = <<>>
            /\ crawlLog' = <<>>
            /\ submitted' = {}
            /\ collided' = <<>>
            /\ cacheReads' = 0
            /\ cacheWrites' = 0
            /\ cacheAtStart' = disk
       ELSE UNCHANGED <<buildPromise, pipelines, pc, hasteMap, map, mocks,
                        promises, console, crawlLog, submitted, collided,
                        cacheVars>>
  /\ returned' = returned \cup {buildPromise'.id}
  /\ UNCHANGED <<envVars, options, workerPromise, workerFarm, farm,
                 prev, fsTouched>>

\* A chain that swallows the rejection and leaves the promise pending.
NeverRejected(promise, error) == promise

\* A step of the chain rejects: the rejection runs down the chain of
\* build() and settles this._buildPromise.
Rejected(promise, error) ==
  IF promise.state = "pending"
    THEN [promise EXCEPT !.state = "rejected", !.error = error]
    ELSE promise

(***************************************************************************)
(* _buildFileMap: read the cache or create an empty structure.             *)
(***************************************************************************)
\* _persist's JSON.stringify and _parse's JSON.parse: every value of an
\* InternalHasteMap is a string, a number, an array or a plain object, which
\* the round trip gives back as written.
Stringify(h) == [kind |-> "valid", data |-> h]

CorruptCache == [kind |-> "corrupt", data |-> CreateEmptyMap]

\* this.read(): throws unless the file is there and parses.
ReadThrows(d) == d.kind # "valid"

Parse(d) == d.data

\* A _buildFileMap that reads the cache file whatever resetCache says.
ReadsCacheAlways(opts) == TRUE

\* read = this._options.resetCache ? this._createEmptyMap : this.read
ReadsCache(opts) == ~opts.resetCache

ReadOrEmpty(opts, d) ==
  IF ~ReadsCache(opts) THEN CreateEmptyMap
  ELSE IF ReadThrows(d) THEN CreateEmptyMap
  ELSE Parse(d)

BuildFileMap ==
  /\ pc = "read"
  /\ hasteMap' = ReadOrEmpty(options, disk)
  /\ cacheReads' = IF ReadsCache(options) THEN cacheReads + 1 ELSE cacheReads
  /\ pc' = "crawl"
  /\ UNCHANGED <<envVars, instanceVars, map, mocks, promises, farm, logVars,
                 calls, pipelines, returned, submitted, collided, prev,
                 fsTouched, cacheWrites, cacheAtStart>>

(***************************************************************************)
(* _crawl: crawl the file system, retrying a failed watchman crawl once    *)
(* with the node crawler.                                                  *)
(***************************************************************************)
Roots      == <<"/">>
Extensions == <<"js">>

\* (canUseWatchman && this._options.useWatchman) ? watchmanCrawl : nodeCrawl
SelectedCrawler(opts) == IF opts.useWatchman THEN "watchman" ELSE "node"

\* The arguments of crawl(options.roots, options.extensions, ignore, hasteMap);
\* the ignore predicate is given by the set of paths it rejects.
CrawlArgs(opts, h) ==
  [roots |-> Roots, extensions |-> Extensions,
   ignore |-> {p \in Paths : Ignore(opts, p)}, hasteMap |-> h]

\* The arguments of the nodeCrawl call in retry.
RetryArgs(opts, h) == CrawlArgs(opts, h)

CrawlCall(crawler, args) == [crawler |-> crawler, args |-> args]

\* What a crawler that succeeds returns: `files` is the set of files on disk
\* that the ignore predicate lets through; a record whose mtime is that of
\* the prior record is passed through untouched, any other file gets a
\* record with visited = 0 and id and dependencies cleared.  The watchman
\* crawler also records its clock.
CrawlResult(crawler, args) ==
  LET prior == args.hasteMap
      found == {p \in Paths : fs[p].exists /\ p \notin args.ignore}
  IN [prior EXCEPT
        !.clocks = IF crawler = "watchman"
                     THEN [r \in {Roots[1]} |-> "clock"]
                     ELSE @,
        !.files = [p \in found |->
                     IF p \in DOMAIN prior.files
                        /\ prior.files[p].mtime = fs[p].mtime
                       THEN prior.files[p]
                       ELSE FileMetaData("", fs[p].mtime, 0, <<>>)]]

\* The error a failed crawler rejects with or throws.
CrawlerError(crawler) == ErrorOf("crawler", {}, {crawler})

\* new Error(`Crawler retry failed: Original error: .. Retry error: ..`)
RetryFailedError(error, e) ==
  ErrorOf("retry", {}, error.messages \cup e.messages)

WatchmanWarning == [kind |-> "watchman-crawl-failed", id |-> "",
                    path |-> "", existing |-> ""]

\* A retry that rethrows whatever crawler failed.
NeverRetries(opts) == FALSE

\* crawl === watchmanCrawl, in retry
RetriesWithNode(opts) == SelectedCrawler(opts) = "watchman"

\* retry(error), entered with the crawl log `log`: warn and call nodeCrawl,
\* which returns a promise or throws; or rethrow the error.
Retry(error, log) ==
  IF RetriesWithNode(options)
    THEN /\ console' = Append(console, WatchmanWarning)
         /\ crawlLog' =
              Append(log, CrawlCall("node", RetryArgs(options, hasteMap)))
         /\ \/ /\ pc' = "retrying"
               /\ UNCHANGED buildPromise
            \/ /\ pc' = "crawl-failed"
               /\ buildPromise' = Rejected(buildPromise, CrawlerError("node"))
    ELSE /\ console' = console
         /\ crawlLog' = log
         /\ pc' = "crawl-failed"
         /\ buildPromise' = Rejected(buildPromise, error)

\* crawl(...) is called: it returns a promise, or it throws and the catch
\* block runs retry(error).
Crawl ==
  /\ pc = "crawl"
  /\ LET crawler == SelectedCrawler(options)
         log == Append(crawlLog,
                       CrawlCall(crawler, CrawlArgs(options, hasteMap)))
     IN \/ /\ pc' = "crawling"
           /\ crawlLog' = log
           /\ UNCHANGED <<console, buildPromise>>
        \/ Retry(CrawlerError(crawler), log)
  /\ UNCHANGED <<envVars, options, workerPromise, workerFarm, hasteMap, map,
                 mocks, promises, farm, histVars>>

\* The selected crawler's promise resolves.
CrawlResolves ==
  /\ pc = "crawling"
  /\ hasteMap' = CrawlResult(SelectedCrawler(options), crawlLog[Len(crawlLog)].args)
  /\ pc' = "dispatch"
  /\ UNCHANGED <<envVars, instanceVars, map, mocks, promises, farm, logVars,
                 histVars>>

\* The selected crawler's promise rejects: .catch(retry).
CrawlRejects ==
  /\ pc = "crawling"
  /\ Retry(CrawlerError(SelectedCrawler(options)), crawlLog)
  /\ UNCHANGED <<envVars, options, workerPromise, workerFarm, hasteMap, map,
                 mocks, promises, farm, histVars>>

\* The retry's nodeCrawl promise resolves.
RetryResolves ==
  /\ pc = "retrying"
  /\ hasteMap' = CrawlResult("node", crawlLog[Len(crawlLog)].args)
  /\ pc' = "dispatch"
  /\ UNCHANGED <<envVars, instanceVars, map, mocks, promises, farm, logVars,
                 histVars>>

\* The retry's nodeCrawl promise rejects: the .catch of lines 420-426.
RetryRejects ==
  /\ pc = "retrying"
  /\ buildPromise' =
       Rejected(buildPromise,
                RetryFailedError(CrawlerError("watchman"), CrawlerError("node")))
  /\ pc' = "crawl-failed"
  /\ UNCHANGED <<envVars, options, workerPromise, workerFarm, hasteMap, map,
                 mocks, promises, farm, logVars, histVars>>

(***************************************************************************)
(* _buildHasteMap: parse and extract metadata from changed files.          *)
(***************************************************************************)
CollisionMessage(id, module, existingModule) ==
  [kind |-> "collision", id |-> id,
   path |-> module.path, existing |-> existingModule.path]

\* A setModule that never throws.
NeverThrowsOnCollision(opts) == FALSE

\* this._options.throwOnModuleCollision, in setModule
ThrowsOnCollision(opts) == opts.throwOnModuleCollision

\* existingModule && existingModule[H.PATH] !== module[H.PATH]
Collides(moduleMap, platform, module) ==
  /\ platform \in DOMAIN moduleMap
  /\ moduleMap[platform].path # module.path

\* A setModule that warns about a collision and installs the module anyway.
SetModuleOverwrites(m, id, module, opts) ==
  LET m1 == IF id \in DOMAIN m THEN m ELSE Put(m, id, EmptyTable)
      moduleMap == m1[id]
      platform ==
        IF GetPlatformExtension(module.path) # ""
          THEN GetPlatformExtension(module.path)
          ELSE GENERIC_PLATFORM
  IN [map |-> Put(m1, id, Put(moduleMap, platform, module)),
      outcome |-> IF ~Collides(moduleMap, platform, module) THEN "set"
                  ELSE IF ThrowsOnCollision(opts) THEN "throw" ELSE "warn",
      message |-> IF Collides(moduleMap, platform, module)
                    THEN CollisionMessage(id, module, moduleMap[platform])
                    ELSE CollisionMessage(id, module, module)]

\* setModule(id, module) on the map `m`: the map it leaves, and whether it
\* set the module, warned or threw.
SetModule(m, id, module, opts) ==
  LET m1 == IF id \in DOMAIN m THEN m ELSE Put(m, id, EmptyTable)
      moduleMap == m1[id]
      platform ==
        IF GetPlatformExtension(module.path) # ""
          THEN GetPlatformExtension(module.path)
          ELSE GENERIC_PLATFORM
  IN IF Collides(moduleMap, platform, module)
       THEN [map |-> m1,
             outcome |-> IF ThrowsOnCollision(opts) THEN "throw" ELSE "warn",
             message |-> CollisionMessage(id, module, moduleMap[platform])]
       ELSE [map |-> Put(m1, id, Put(moduleMap, platform, module)),
             outcome |-> "set",
             message |-> CollisionMessage(id, module, module)]

\* A loop that skips no file.
NeverSkips(opts, filePath) == FALSE

\* this._options.retainAllFiles && this._isNodeModulesDir(filePath)
SkipsFile(opts, filePath) ==
  opts.retainAllFiles /\ IsNodeModulesDir(filePath)

\* A loop that takes no file for visited.
NeverVisited(fileMetadata) == FALSE

\* fileMetadata[H.VISITED]
IsVisited(fileMetadata) == fileMetadata.visited = 1

\* moduleMetadata = hasteMap.map[fileMetadata[H.ID]] is set
HasModuleMetadata(h, fileMetadata) == fileMetadata.id \in DOMAIN h.map

\* Lines 309-316: the file needs no extraction.
UpToDate(h, fileMetadata) ==
  IsVisited(fileMetadata)
  /\ (fileMetadata.id = "" \/ HasModuleMetadata(h, fileMetadata))

\* Lines 303-305: the mocks table after the file is looked at.
RegisterMock(mks, filePath) ==
  IF MocksPatternTest(filePath)
    THEN Put(mks, Basename(filePath), filePath)
    ELSE mks

\* A loop that drops the prior map's entry.
NoCopyThrough(m, h, fileMetadata) == m

\* Lines 312-314: the prior map's entry of the file's id goes to the new map.
CopyThrough(m, h, fileMetadata) ==
  IF fileMetadata.id # "" /\ HasModuleMetadata(h, fileMetadata)
    THEN Put(m, fileMetadata.id, h.map[fileMetadata.id])
    ELSE m

\* One pass of the body of `for (const filePath in hasteMap.files)`.
DispatchFile(acc, filePath, h, opts) ==
  IF SkipsFile(opts, filePath) THEN acc
  ELSE LET fileMetadata == h.files[filePath]
           mks == RegisterMock(acc.mocks, filePath)
       IN IF UpToDate(h, fileMetadata)
            THEN [acc EXCEPT !.mocks = mks,
                             !.map = CopyThrough(acc.map, h, fileMetadata)]
            ELSE [acc EXCEPT !.mocks = mks,
                             !.promises = Append(@, filePath)]

RECURSIVE DispatchLoop(_, _, _, _)
DispatchLoop(acc, keys, h, opts) ==
  IF keys = <<>> THEN acc
  ELSE DispatchLoop(DispatchFile(acc, Head(keys), h, opts), Tail(keys), h, opts)

\* maxWorkers <= 1: the extractor runs in-process
InProcess(opts) == opts.maxWorkers <= 1

\* The synchronous part of _buildHasteMap, lines 265-338, with the
\* _getWorker() calls it makes.
BuildHasteMap ==
  /\ pc = "dispatch"
  /\ LET r == DispatchLoop([map |-> EmptyTable, mocks |-> EmptyTable,
                            promises |-> <<>>],
                           KeysInOrder(hasteMap.files), hasteMap, options)
     IN /\ map' = r.map
        /\ mocks' = r.mocks
        /\ promises' = r.promises
        /\ submitted' = {r.promises[i] : i \in 1..Len(r.promises)}
        /\ IF r.promises = <<>>
             THEN UNCHANGED <<workerPromise, workerFarm, farm>>
             ELSE /\ workerPromise' = TRUE
                  /\ IF InProcess(options)
                       THEN UNCHANGED <<workerFarm, farm>>
                       ELSE workerFarm' = TRUE /\ farm' = "live"
  /\ pc' = "workers"
  /\ UNCHANGED <<envVars, options, buildPromise, hasteMap, logVars,
                 calls, pipelines, returned, collided, prev, fsTouched,
                 cacheVars>>

\* What the extractor answers for a file: an error (or nothing), or the
\* metadata {id, module, dependencies}.
WorkerFails(filePath) == fs[filePath].content = Unreadable

WorkerMetadata(filePath) ==
  [id |-> fs[filePath].content,
   dependencies |-> DependenciesOf(filePath)]

Without(seq, x) == SelectSeq(seq, LAMBDA y : y # x)

\* A success handler that does not mark the record visited.
UnvisitedRecord(fileMetadata, metadata, threw) ==
  [fileMetadata EXCEPT
     !.id = IF metadata.id # "" THEN metadata.id ELSE @,
     !.dependencies = IF threw THEN @ ELSE metadata.dependencies]

\* The success handler of lines 320-330, on the file record: visited is set,
\* then the id when the file declares a module, then - unless setModule
\* threw - the dependencies.
VisitedRecord(fileMetadata, metadata, threw) ==
  [fileMetadata EXCEPT
     !.visited = 1,
     !.id = IF metadata.id # "" THEN metadata.id ELSE @,
     !.dependencies = IF threw THEN @ ELSE metadata.dependencies]

\* The platform slot a path falls in.
PlatformOf(filePath) ==
  IF GetPlatformExtension(filePath) # ""
    THEN GetPlatformExtension(filePath)
    ELSE GENERIC_PLATFORM

\* The path the map `m` holds at the slot (id, platform of filePath), and
\* whether that slot holds a path other than filePath.
InstalledPath(m, id, filePath) == m[id][PlatformOf(filePath)].path

MeetsOtherPath(m, id, filePath) ==
  /\ id \in DOMAIN m
  /\ PlatformOf(filePath) \in DOMAIN m[id]
  /\ InstalledPath(m, id, filePath) # filePath

\* An extraction job completes.  In-process jobs complete in dispatch
\* order, pool jobs in any order.
WorkerResolves(filePath) ==
  /\ pc = "workers"
  /\ Len(promises) > 0
  /\ IF InProcess(options)
       THEN filePath = Head(promises)
       ELSE filePath \in {promises[i] : i \in 1..Len(promises)}
  /\ ~WorkerFails(filePath)
  /\ promises' = Without(promises, filePath)
  /\ LET metadata == WorkerMetadata(filePath)
         set == SetModule(map, metadata.id, ModuleMetaData(filePath), options)
         installs == metadata.id # ""
         threw == installs /\ set.outcome = "throw"
     IN /\ hasteMap' =
             [hasteMap EXCEPT
                !.files[filePath] = VisitedRecord(@, metadata, threw)]
        /\ map' = IF installs THEN set.map ELSE map
        /\ console' = IF installs /\ set.outcome = "warn"
                        THEN Append(console, set.message)
                        ELSE console
        /\ buildPromise' =
             IF threw
               THEN Rejected(buildPromise,
                             ErrorOf("collision",
                                     {set.message.path, set.message.existing},
                                     {}))
               ELSE buildPromise
        /\ collided' =
             IF installs /\ MeetsOtherPath(map, metadata.id, filePath)
               THEN Append(collided,
                           [id |-> metadata.id, path |-> filePath,
                            existing |-> InstalledPath(map, metadata.id,
                                                       filePath)])
               ELSE collided
  /\ UNCHANGED <<envVars, options, workerPromise, workerFarm, farm, pc,
                 mocks, crawlLog, calls, pipelines, returned, submitted,
                 prev, fsTouched, cacheVars>>

\* The error handler of lines 331-335.
WorkerRejects(filePath) ==
  /\ pc = "workers"
  /\ Len(promises) > 0
  /\ IF InProcess(options)
       THEN filePath = Head(promises)
       ELSE filePath \in {promises[i] : i \in 1..Len(promises)}
  /\ WorkerFails(filePath)
  /\ promises' = Without(promises, filePath)
  /\ hasteMap' = [hasteMap EXCEPT !.files = Del(@, filePath)]
  /\ UNCHANGED <<envVars, instanceVars, farm, pc, map, mocks, logVars,
                 histVars>>

\* A Promise.all that resolves while jobs are outstanding.
SettlesEarly(jobs) == TRUE

\* Promise.all(promises) resolves once every job has completed.
AllSettled(jobs) == jobs = <<>>

\* A chain whose `then` callbacks run after a rejection too.
RunsAfterRejection(promise) == TRUE

\* The `then` callbacks of lines 341-352 and of build() run only while no
\* job handler has thrown.
ChainRuns(promise) == promise.state = "pending"

\* Promise.all(promises) resolved: lines 341-347.
Teardown ==
  /\ pc = "workers"
  /\ AllSettled(promises)
  /\ ChainRuns(buildPromise)
  /\ farm' = IF workerFarm THEN "ended" ELSE farm
  /\ workerFarm' = FALSE
  /\ workerPromise' = FALSE
  /\ pc' = "assemble"
  /\ UNCHANGED <<envVars, options, buildPromise, hasteMap, map, mocks,
                 promises, logVars, histVars>>

\* Lines 348-352.
Assemble ==
  /\ pc = "assemble"
  /\ hasteMap' = [hasteMap EXCEPT !.map = map, !.mocks = mocks]
  /\ pc' = "persist"
  /\ UNCHANGED <<envVars, instanceVars, map, mocks, promises, farm, logVars,
                 histVars>>

(***************************************************************************)
(* _persist: serialize the new HasteMap in the cache file.                 *)
(***************************************************************************)
Persist ==
  /\ pc = "persist"
  /\ disk' = Stringify(hasteMap)
  /\ cacheWrites' = cacheWrites + 1
  /\ pc' = "publish"
  /\ UNCHANGED <<fs, runs, fsOps, instanceVars, hasteMap, map, mocks,
                 promises, farm, logVars, calls, pipelines, returned,
                 submitted, collided, prev, fsTouched, cacheReads,
                 cacheAtStart>>

\* fs.writeFileSync throws: the file is as it was or holds a partial write.
PersistThrows ==
  /\ pc = "persist"
  /\ disk' \in {disk, CorruptCache}
  /\ cacheWrites' = cacheWrites + 1
  /\ buildPromise' = Rejected(buildPromise, ErrorOf("persist", {}, {}))
  /\ pc' = "persist-failed"
  /\ UNCHANGED <<fs, runs, fsOps, options, workerPromise, workerFarm,
                 hasteMap, map, mocks, promises, farm, logVars, calls,
                 pipelines, returned, submitted, collided, prev, fsTouched,
                 cacheReads, cacheAtStart>>

\* The last `then` of build(): the facades over files, map and mocks.
Publish ==
  /\ pc = "publish"
  /\ buildPromise' =
       [buildPromise EXCEPT
          !.state = "resolved",
          !.value = [files |-> hasteMap.files, map |-> hasteMap.map,
                     mocks |-> hasteMap.mocks]]
  /\ pc' = "done"
  /\ UNCHANGED <<envVars, options, workerPromise, workerFarm, hasteMap, map,
                 mocks, promises, farm, logVars, histVars>>

Next ==
  \/ \E p \in Paths, c \in Contents : FsCreate(p, c)
  \/ \E p \in Paths, c \in Contents : FsTouch(p, c)
  \/ \E p \in Paths : FsRemove(p)
  \/ \E p \in Paths, q \in Paths : FsRename(p, q)
  \/ \E opts \in OptionSets : Constructor(opts)
  \/ Build
  \/ BuildFileMap
  \/ Crawl
  \/ CrawlResolves
  \/ CrawlRejects
  \/ RetryResolves
  \/ RetryRejects
  \/ BuildHasteMap
  \/ \E p \in Paths : WorkerResolves(p)
  \/ \E p \in Paths : WorkerRejects(p)
  \/ Teardown
  \/ Assemble
  \/ Persist
  \/ PersistThrows
  \/ Publish

Spec == Init /\ [][Next]_vars

(***************************************************************************)
(* The scheduling the pipeline runs under: the event loop runs every       *)
(* callback of the promise chain that is ready, and the crawlers and the   *)
(* extraction jobs that were started complete, one way or the other.       *)
(***************************************************************************)
CrawlerCompletes ==
  CrawlResolves \/ CrawlRejects \/ RetryResolves \/ RetryRejects

JobCompletes == \E p \in Paths : WorkerResolves(p) \/ WorkerRejects(p)

ChainStep ==
  \/ BuildFileMap
  \/ Crawl
  \/ BuildHasteMap
  \/ Teardown
  \/ Assemble
  \/ Persist
  \/ PersistThrows
  \/ Publish

Fairness ==
  /\ WF_vars(ChainStep)
  /\ WF_vars(CrawlerCompletes)
  /\ WF_vars(JobCompletes)

LiveSpec == Init /\ [][Next]_vars /\ Fairness

(***************************************************************************)
(* Properties.                                                             *)
(***************************************************************************)
Published == buildPromise.state = "resolved"

Index == buildPromise.value

ModulePaths(m) ==
  {m[id][platform].path : <<id, platform>> \in
     {<<i, q>> \in (DOMAIN m) \X {GENERIC_PLATFORM, "ios"} : q \in DOMAIN m[i]}}

\* C1: however many build() calls an instance has received, and whenever
\* they were made, one pipeline was started and every call returned the one
\* promise that pipeline settles.
C1_SingleFlight ==
  calls >= 1 =>
    /\ pipelines = 1
    /\ returned = {buildPromise.id}
    /\ buildPromise.state # "null"

\* A second build() call was made before the pending build got through its
\* metadata stage.
C1_Witness ==
  /\ calls = 2
  /\ pipelines = 1
  /\ pc = "workers"
  /\ promises # <<>>
  /\ buildPromise.state = "pending"

\* C2 (I1): after a successful build every path the map names is a key of
\* files.
C2_MapPathsAreFiles ==
  Published => ModulePaths(Index.map) \subseteq DOMAIN Index.files

\* C3 (I2): after a successful build every visited file that carries an id
\* is the path of one of the platform entries of its id in map.
C3_VisitedFilesAreMapped ==
  Published =>
    \A p \in DOMAIN Index.files :
      (Index.files[p].visited = 1 /\ Index.files[p].id # "") =>
        /\ Index.files[p].id \in DOMAIN Index.map
        /\ \E platform \in DOMAIN Index.map[Index.files[p].id] :
             Index.map[Index.files[p].id][platform].path = p

\* C4: under the throw policy, once setModule has met another path at the
\* slot it installs into, the build is rejected with the collision error
\* that names the two paths of the first such call, and nothing is persisted
\* or published.
C4_CollisionThrows ==
  (options.throwOnModuleCollision /\ collided # <<>>) =>
    /\ buildPromise.state = "rejected"
    /\ buildPromise.error.kind = "collision"
    /\ buildPromise.error.paths = {collided[1].path, collided[1].existing}
    /\ collided[1].path # collided[1].existing
    /\ pc = "workers"

C4_Witness ==
  /\ options.throwOnModuleCollision
  /\ collided # <<>>
  /\ promises = <<>>

\* The warnings about collisions, in the order they were emitted.
CollisionWarnings == SelectSeq(console, LAMBDA w : w.kind = "collision")

\* C5: under the warn policy each setModule call that meets another path
\* emits one warning naming both paths and leaves the installed module in
\* place, a call that meets its own path emits none, and no collision
\* rejects the build.
C5_CollisionWarns ==
  ~options.throwOnModuleCollision =>
    /\ Len(CollisionWarnings) = Len(collided)
    /\ \A i \in 1..Len(collided) :
         /\ CollisionWarnings[i].path = collided[i].path
         /\ CollisionWarnings[i].existing = collided[i].existing
         /\ collided[i].path # collided[i].existing
         /\ pc \in {"workers", "assemble"} =>
              InstalledPath(map, collided[i].id, collided[i].path)
                = collided[i].existing
         /\ Published =>
              InstalledPath(Index.map, collided[i].id, collided[i].path)
                = collided[i].existing
    /\ buildPromise.error.kind # "collision"

C5_Witness ==
  /\ ~options.throwOnModuleCollision
  /\ collided # <<>>
  /\ Published

\* C6 (I4): after a successful build every value of mocks is a key of files.
C6_MocksAreFiles ==
  Published =>
    \A stem \in DOMAIN Index.mocks : Index.mocks[stem] \in DOMAIN Index.files

\* The cache the build in flight loaded: the cache file is valid, resetCache
\* is off, and the file is not rewritten before the pipeline persists.
BuildsFromCache ==
  /\ pc \in {"workers", "assemble", "persist"}
  /\ ~options.resetCache
  /\ disk.kind = "valid"

UnchangedSince(cache, p) ==
  /\ p \in DOMAIN cache.files
  /\ fs[p].exists
  /\ cache.files[p].mtime = fs[p].mtime

C8_Idempotent ==
  (Published /\ prev.ok /\ prev.options = options /\ ~options.resetCache) =>
    Index = prev.index

C8_Witness ==
  /\ Published
  /\ prev.ok
  /\ prev.options = options
  /\ ~options.resetCache
  /\ DOMAIN Index.map # {}
  /\ DOMAIN Index.mocks # {}

CrawlerCalls(crawler) ==
  Cardinality({i \in 1..Len(crawlLog) : crawlLog[i].crawler = crawler})

\* C9: no crawler is invoked twice in a build; once the selected watchman
\* crawler has failed, the diagnostic has been emitted and the node crawler
\* has been invoked with the arguments the watchman crawler got; and when
\* that retry succeeds the pending build goes on with what it returned.
C9_RetryOnce ==
  /\ CrawlerCalls("watchman") <= 1
  /\ CrawlerCalls("node") <= 1
  /\ (options.useWatchman /\ pc \in {"retrying", "crawl-failed"}) =>
       /\ Len(crawlLog) = 2
       /\ crawlLog[1].crawler = "watchman"
       /\ crawlLog[2].crawler = "node"
       /\ crawlLog[2].args = crawlLog[1].args
       /\ console = <<WatchmanWarning>>
  /\ (pc = "dispatch" /\ Len(crawlLog) = 2) =>
       /\ buildPromise.state = "pending"
       /\ console = <<WatchmanWarning>>
       /\ crawlLog[2].args = crawlLog[1].args
       /\ hasteMap = CrawlResult("node", crawlLog[2].args)

\* The watchman crawler failed on a loaded cache, and the retry succeeded.
C9_Witness ==
  /\ pc = "dispatch"
  /\ Len(crawlLog) = 2
  /\ DOMAIN crawlLog[1].args.hasteMap.files # {}
  /\ DOMAIN hasteMap.files # {}

\* C10: a build that failed in the crawl stage is rejected with the combined
\* "Crawler retry failed" error, which after a retry carries the messages of
\* the watchman error and of the node error.
C10_NativeFailureCombined ==
  pc = "crawl-failed" =>
    /\ buildPromise.state = "rejected"
    /\ buildPromise.error.kind = "retry"
    /\ Len(crawlLog) = 2 =>
         buildPromise.error.messages = {"watchman", "node"}

\* The paths whose extraction has failed in this build: the worker gave an
\* error or no metadata, and the error handler has run.
Pending == {promises[i] : i \in 1..Len(promises)}

FailedExtractions == {p \in submitted \ Pending : WorkerFails(p)}

\* C11: after a successful build, and before the file system changes again,
\* a path whose extraction failed is not a key
\* of files and no map entry names it, and every other path handed to the
\* extractor has been processed: its record is visited.
C11_FailedExtractionDropped ==
  (Published /\ ~fsTouched) =>
    /\ \A p \in FailedExtractions :
         /\ p \notin DOMAIN Index.files
         /\ p \notin ModulePaths(Index.map)
    /\ \A p \in submitted \ FailedExtractions :
         /\ p \in DOMAIN Index.files
         /\ Index.files[p].visited = 1

\* The pipeline has completed at or after the metadata stage: the build
\* promise is settled and no extraction job is outstanding.
CompletedAfterMetadata ==
  /\ buildPromise.state \in {"resolved", "rejected"}
  /\ pc \in {"workers", "done", "persist-failed"}
  /\ promises = <<>>

\* C12: once the pipeline has completed at or after the metadata stage,
\* whether it resolved or was rejected, this._workerFarm and
\* this._workerPromise are cleared and a pool that was created has been
\* ended; when no pool was created there is none afterwards.
C12_PoolTornDown ==
  CompletedAfterMetadata =>
    /\ ~workerFarm
    /\ ~workerPromise
    /\ farm \in {"none", "ended"}
    /\ InProcess(options) => farm = "none"

SubTables == {"clocks", "files", "map", "mocks"}

\* C13: every crawler invocation receives a map with the four sub-tables;
\* it is the empty map when the read of the cache file threw (the file is
\* missing or corrupt) and when resetCache is set, and with resetCache set
\* the cache file is not read at all; otherwise it is the cached map.
C13_CrawlerGetsFullMap ==
  /\ \A i \in 1..Len(crawlLog) :
       /\ DOMAIN crawlLog[i].args.hasteMap = SubTables
       /\ crawlLog[i].args.hasteMap =
            IF options.resetCache \/ ReadThrows(cacheAtStart)
              THEN CreateEmptyMap
              ELSE Parse(cacheAtStart)
  /\ options.resetCache => cacheReads = 0
  /\ cacheReads <= 1

\* A build with resetCache set crawls while the cache file holds an index.
C13_Witness ==
  /\ options.resetCache
  /\ crawlLog # <<>>
  /\ cacheAtStart.kind = "valid"
  /\ DOMAIN Parse(cacheAtStart).files # {}

\* C14: the build promise carries no index until it is resolved, and it is
\* resolved only by the last step of the chain.  When it is resolved the
\* cache was loaded and crawled, no extraction job is outstanding, every
\* path handed to the extractor is visited or removed, the cache file holds
\* the index, and the index is the final files, map and mocks.
C14_PublishedAfterAllStages ==
  /\ ~Published => buildPromise.value = NoValue
  /\ Published =>
       /\ pc = "done"
       /\ crawlLog # <<>>
       /\ promises = <<>>
       /\ \A p \in submitted :
            p \in DOMAIN hasteMap.files => hasteMap.files[p].visited = 1
       /\ cacheWrites = 1
       /\ disk = Stringify(hasteMap)
       /\ hasteMap.map = map /\ hasteMap.mocks = mocks
       /\ Index = [files |-> hasteMap.files, map |-> hasteMap.map,
                   mocks |-> hasteMap.mocks]
  /\ pc \in {"assemble", "persist", "publish"} => promises = <<>>
  /\ pc \in {"read", "crawl", "crawling", "retrying", "dispatch"} =>
       submitted = {} /\ cacheWrites = 0
  /\ pc \in {"workers", "assemble", "persist"} =>
       crawlLog # <<>> /\ cacheWrites = 0

\* An index built by extracting several files on a worker pool is published.
C14_Witness ==
  /\ Published
  /\ Cardinality(submitted) >= 2
  /\ ~InProcess(options)
  /\ DOMAIN Index.map # {}
  /\ DOMAIN Index.mocks # {}

\* The place of a path in the iteration order over files.
OrderOf(filePath) ==
  CHOOSE i \in 1..Len(FileOrder) : FileOrder[i] = filePath

\* C15 (P5): under the warn policy the path a collision keeps is the one
\* the loop over files met first, in whatever order the extraction jobs
\* complete.
C15_FirstIteratedKept ==
  ~options.throwOnModuleCollision =>
    \A i \in 1..Len(collided) :
      OrderOf(collided[i].existing) < OrderOf(collided[i].path)

\* C16: a build() call made after the build of the instance was rejected
\* starts a fresh pipeline.
C16_FreshPipelineAfterFailure ==
  [][(buildPromise.state = "rejected" /\ calls' = calls + 1)
       => pipelines' = pipelines + 1]_vars

\* The files the retainAllFiles rule of the metadata stage skips.
SkippedFiles(h) == {p \in DOMAIN h.files : SkipsFile(options, p)}

MockPaths(mks) == {mks[stem] : stem \in DOMAIN mks}

\* The record the crawl of this build delivered for a path.
CrawledRecord(p) ==
  CrawlResult(crawlLog[Len(crawlLog)].crawler,
              crawlLog[Len(crawlLog)].args).files[p]

\* C17: with retainAllFiles set, a file under node_modules that is on disk
\* is not ignored by the crawl and is a key of files from the crawl to the
\* published index; the metadata stage does not hand it to the extractor,
\* does not register it in mocks, installs no map entry for it and leaves
\* its record as the crawler delivered it.
C17_RetainedFilesSkipped ==
  (options.retainAllFiles
   /\ pc \in {"workers", "assemble", "persist", "publish", "done"}
   /\ ~fsTouched) =>
    \A p \in {q \in Paths : IsNodeModulesDir(q) /\ fs[q].exists} :
      /\ ~Ignore(options, p)
      /\ p \in DOMAIN hasteMap.files
      /\ p \notin submitted
      /\ p \notin MockPaths(mocks)
      /\ p \notin ModulePaths(map)
      /\ hasteMap.files[p] = CrawledRecord(p)
      /\ Published =>
           /\ p \in DOMAIN Index.files
           /\ Index.files[p] = CrawledRecord(p)
           /\ p \notin MockPaths(Index.mocks)
           /\ p \notin ModulePaths(Index.map)

\* An index that retains a node_modules file next to extracted files is
\* published.
C17_Witness ==
  /\ options.retainAllFiles
  /\ Published /\ ~fsTouched
  /\ SkippedFiles(hasteMap) # {}
  /\ submitted # {}
  /\ DOMAIN Index.mocks # {}

\* The keys of files after the crawl of this build: the keys files has now
\* and the paths the error handler has deleted.
CrawledFiles == (DOMAIN hasteMap.files) \cup submitted

\* C18: every collision of a build, warned about or thrown, is between two
\* distinct paths that are both keys of files after the crawl.
C18_CollisionsAmongFiles ==
  \A i \in 1..Len(collided) :
    /\ collided[i].path # collided[i].existing
    /\ collided[i].path \in CrawledFiles
    /\ collided[i].existing \in CrawledFiles

\* The build was rejected by the crawl stage or by a collision.
FailedBeforePersist ==
  /\ buildPromise.state = "rejected"
  /\ buildPromise.error.kind \in {"crawler", "retry", "collision"}

\* C19: a build rejected by a crawler failure or by a collision has not
\* written the cache file, which holds what it held when the build started,
\* and no build writes the cache file twice.
C19_FailedBuildKeepsCache ==
  /\ cacheWrites <= 1
  /\ FailedBeforePersist =>
       /\ cacheWrites = 0
       /\ disk = cacheAtStart

\* A build on a cache that holds an index is rejected by a collision, and
\* its jobs have all completed.
C19_Witness ==
  /\ FailedBeforePersist
  /\ buildPromise.error.kind = "collision"
  /\ promises = <<>>
  /\ cacheAtStart.kind = "valid"
  /\ DOMAIN Parse(cacheAtStart).files # {}

\* C20: in a published index every record of files that the retainAllFiles
\* rule did not skip is visited, and every path the crawler delivered
\* unvisited, or otherwise in need of extraction, was handed to the
\* extractor and is visited or is no key of files.
C20_PublishedFilesVisited ==
  Published =>
    /\ \A p \in DOMAIN Index.files :
         ~SkipsFile(options, p) => Index.files[p].visited = 1
    /\ \A p \in submitted :
         p \in DOMAIN Index.files => Index.files[p].visited = 1
    /\ \A p \in DOMAIN Index.files :
         (~SkipsFile(options, p) /\ p \notin submitted) =>
           /\ p \in DOMAIN Parse(cacheAtStart).files
           /\ Parse(cacheAtStart).files[p].visited = 1

\* A published index after a build that extracted a file, dropped a file
\* whose extraction failed and kept a cached record.
C20_Witness ==
  /\ Published /\ ~fsTouched
  /\ FailedExtractions # {}
  /\ submitted \ FailedExtractions # {}
  /\ (DOMAIN Index.files) \ submitted # {}

Settled == buildPromise.state \in {"resolved", "rejected"}

\* C21: when the crawlers and the extraction jobs that were started
\* complete, the promise a build() call returned is settled in the end: it
\* is resolved with the published index or rejected, whatever the cache
\* read, the crawl, the extractions and the collision policy come to.
C21_BuildSettles ==
  (buildPromise.state = "pending") ~> Settled

\* A build is resolved after the watchman crawler failed, the retry
\* succeeded and an extraction failed.
C21_Witness ==
  /\ Published /\ ~fsTouched
  /\ Len(crawlLog) = 2
  /\ FailedExtractions # {}
  /\ submitted \ FailedExtractions # {}

====
